---- MODULE Spec2Model ----
(***************************************************************************)
(* Model of simple-parallel-compute: compute(input, f) of src/src/lib.rs.  *)
(* The calling thread, the host's parallelism query and every spawned      *)
(* worker thread are processes of one state machine; a worker applies f to *)
(* one element of its chunk per step.                                      *)
(***************************************************************************)
EXTENDS Integers, Sequences, FiniteSets, TLC

\* ---------------------------------------------------------------- bounds
\* Longest input vector drawn.
MaxLen == 7
\* Largest value available_parallelism() reports.
MaxP == 4
\* Longest input and largest thread count of the size-only specification.
MaxSize == 12
MaxThreads == 13

\* ------------------------------------------------------------- constants
\* lib.rs:3  const THRESHOLD: usize = 5;
THRESHOLD == 5

\* Element values of the input vectors.
Elems == {1, 2}

\* The transformations passed as f: fn(T) -> R.
\*   "double"    |x| x * 2            (lib.rs tests, main.rs)
\*   "factorial" fn factorial         (lib.rs:94-100)
\*   "checked"   a transformation that panics on the element 2
Funcs == {"double", "factorial", "checked"}

RECURSIVE factorial(_)
factorial(n) == IF n <= 1 THEN 1 ELSE n * factorial(n - 1)

\* Whether f panics on x.
Panics(fn, x) == fn = "checked" /\ x = 2

\* The value f returns on x (when it does not panic).
Apply(fn, x) ==
  CASE fn = "double" -> x * 2
    [] fn = "factorial" -> factorial(x)
    [] OTHER -> x

\* The sequential reference result: input.into_iter().map(f).collect().
RECURSIVE MapF(_, _)
MapF(fn, s) ==
  IF s = <<>> THEN <<>> ELSE <<Apply(fn, Head(s))>> \o MapF(fn, Tail(s))

\* Whether f panics on some element of s.
AnyPanics(fn, s) == \E i \in 1..Len(s) : Panics(fn, s[i])

\* All vectors of length 0..MaxLen over Elems.
Inputs == UNION {[1..k -> Elems] : k \in 0..MaxLen}

\* Answers of available_parallelism(): 0 stands for Err, k >= 1 for Ok(k).
HostAnswers == 0..MaxP

\* Variant: the size test off by one (input_size < THRESHOLD - 1).
UseSequential_OffByOne(n) == n < THRESHOLD - 1

\* Variant: the size test with <= (input_size <= THRESHOLD).
UseSequential_LessEq(n) == n <= THRESHOLD

\* Variant: only the empty input is mapped in the calling thread.
UseSequential_Empty(n) == n = 0

\* lib.rs:27  if input_size < THRESHOLD
UseSequential(n) == n < THRESHOLD

\* Variant: a default of one thread when the query fails (map_or(1, get)).
ParallelismOrPanic_Default(h) == IF h = 0 THEN 1 ELSE h

\* lib.rs:31-33  available_parallelism().expect("cannot get parallelism").get()
\* on the host's answer h: the thread count, or 0 when expect panics.
ParallelismOrPanic(h) == h

\* Variant: the chunk size as input_size / threads_count + 1.
ChunkSize_PlusOne(n, p) == n \div p + 1

\* Variant: the chunk size rounded down (input_size / threads_count).
ChunkSize_Floor(n, p) == n \div p

\* lib.rs:37  (input_size + threads_count - 1) / threads_count
ChunkSize(n, p) == (n + p - 1) \div p

\* Variant: chunks_exact(cs), which leaves the shorter last chunk out.
NumChunks_Exact(n, cs) == n \div cs

\* lib.rs:41  number of chunks input.chunks(cs) yields on n elements.
NumChunks(n, cs) == (n + cs - 1) \div cs

Min(a, b) == IF a < b THEN a ELSE b

\* Variant: windows(cs) in place of chunks(cs): the k-th slice starts at the
\* k-th element.
NthChunk_Window(s, cs, k) == SubSeq(s, k, Min(k + cs - 1, Len(s)))

\* Variant: the end of a chunk taken one element too far.
NthChunk_Overlap(s, cs, k) == SubSeq(s, (k - 1) * cs + 1, Min(k * cs + 1, Len(s)))

\* lib.rs:41-42  the k-th chunk (k >= 1) of s.chunks(cs), copied by to_vec():
\* elements (k-1)*cs+1 .. min(k*cs, n).
NthChunk(s, cs, k) == SubSeq(s, (k - 1) * cs + 1, Min(k * cs, Len(s)))

\* Variant: the caller turns to joining right after a spawn.
AfterSpawn_Eager(k, total) == "join"

\* lib.rs:41-47  for_each goes on until the chunks are exhausted; only then
\* does the caller reach the joins. k chunks of total have been spawned.
AfterSpawn(k, total) == IF k = total THEN "join" ELSE "spawn"

\* Variant: the handle's result is taken without waiting for the thread.
JoinReady_NoWait(w) == TRUE

\* lib.rs:49  handle.join() blocks until the thread has finished.
JoinReady(w) == w.status # "running"

\* Variant: a panicked thread's result is replaced by what it had produced
\* (unwrap_or_default in place of unwrap).
Unwraps_Lenient(w) == TRUE

\* lib.rs:49  .unwrap() of the join result yields the thread's Vec<R> unless
\* the thread panicked.
Unwraps(w) == w.status # "panicked"

\* Variant: the k-th join takes the handle after the k-th one.
JoinOrder_Next(k, order) == k + 1

\* Variant: results are taken in the order the threads finish; 0 while fewer
\* than k threads have finished.
JoinOrder_Completion(k, order) == IF k <= Len(order) THEN order[k] ELSE 0

\* lib.rs:48  thread_handles.into_iter(): the k-th join takes the k-th handle.
JoinOrder(k, order) == k

\* Variant: a joined chunk's results are put in front of the collected ones.
Collect_Prepend(acc, out) == out \o acc

\* lib.rs:49-50  flat_map(..).collect(): a joined chunk's results are appended.
Collect(acc, out) == acc \o out

\* ----------------------------------------------------------------- state
VARIABLES
  input,          \* the Vec<T> moved into compute
  f,              \* the transformation
  pc,             \* position of the calling thread
  acc,            \* sequential path: results mapped so far
  host,           \* the host's answer to the query: -1 not asked, 0 Err, k Ok(k)
  threads_count,  \* lib.rs:31, 0 before the query
  chunk_size,     \* lib.rs:37, 0 before it is computed
  workers,        \* thread_handles with the state of each spawned thread
  joined,         \* number of handles joined so far
  collected,      \* the Vec<R> under construction by collect()
  output,         \* what the caller of compute got back (<<>> unless returned)
  failure,        \* the panic that unwound out of compute
  completed,      \* history: worker indices in the order the threads finished
  prev            \* history: the previous run's output and the worker that
                  \* finished first in it

vars == <<input, f, pc, acc, host, threads_count, chunk_size, workers, joined,
          collected, output, failure, completed, prev>>

NoFailure == [kind |-> "none", worker |-> 0]
NoPrev == [seen |-> FALSE, out |-> <<>>, first |-> 0]

Init ==
  /\ input \in Inputs
  /\ f \in Funcs
  /\ pc = "entered"
  /\ acc = <<>>
  /\ host = -1
  /\ threads_count = 0
  /\ chunk_size = 0
  /\ workers = <<>>
  /\ joined = 0
  /\ collected = <<>>
  /\ output = <<>>
  /\ failure = NoFailure
  /\ completed = <<>>
  /\ prev = NoPrev

\* lib.rs:24-29  the size test that picks the path.
Enter ==
  /\ pc = "entered"
  /\ pc' = IF UseSequential(Len(input)) THEN "seq" ELSE "query"
  /\ UNCHANGED <<input, f, acc, host, threads_count, chunk_size, workers, joined,
                 collected, output, failure, completed, prev>>

\* lib.rs:28  one element of input.into_iter().map(f) in the calling thread.
SeqStep ==
  /\ pc = "seq"
  /\ Len(acc) < Len(input)
  /\ LET x == input[Len(acc) + 1] IN
       IF Panics(f, x)
         THEN /\ pc' = "panicked"
              /\ failure' = [kind |-> "f", worker |-> 0]
              /\ acc' = acc
         ELSE /\ acc' = Append(acc, Apply(f, x))
              /\ UNCHANGED <<pc, failure>>
  /\ UNCHANGED <<input, f, host, threads_count, chunk_size, workers, joined,
                 collected, output, completed, prev>>

\* lib.rs:28  collect() is complete and compute returns it.
SeqReturn ==
  /\ pc = "seq"
  /\ Len(acc) = Len(input)
  /\ pc' = "returned"
  /\ output' = acc
  /\ UNCHANGED <<input, f, acc, host, threads_count, chunk_size, workers, joined,
                 collected, failure, completed, prev>>

\* lib.rs:31-39  available_parallelism().expect(..).get() and the chunk size.
\* slice::chunks panics on a chunk size of 0 (lib.rs:41).
QueryFrom(answers) ==
  /\ pc = "query"
  /\ \E h \in answers :
       LET p == ParallelismOrPanic(h) IN
         /\ host' = h
         /\ IF p = 0
              THEN /\ pc' = "panicked"
                   /\ failure' = [kind |-> "host", worker |-> 0]
                   /\ UNCHANGED <<threads_count, chunk_size>>
              ELSE /\ threads_count' = p
                   /\ chunk_size' = ChunkSize(Len(input), p)
                   /\ IF ChunkSize(Len(input), p) = 0
                        THEN /\ pc' = "panicked"
                             /\ failure' = [kind |-> "chunks", worker |-> 0]
                        ELSE /\ pc' = IF Len(input) = 0 THEN "join" ELSE "spawn"
                             /\ failure' = failure
  /\ UNCHANGED <<input, f, acc, workers, joined, collected, output,
                 completed, prev>>

Query == QueryFrom(HostAnswers)

\* lib.rs:41-45  one iteration of input.chunks(chunk_size).for_each: the chunk
\* is copied and a thread is spawned on it; its handle is pushed.
Spawn ==
  /\ pc = "spawn"
  /\ Len(workers) < NumChunks(Len(input), chunk_size)
  /\ LET k == Len(workers) + 1 IN
       /\ workers' = Append(workers,
            [chunk |-> NthChunk(input, chunk_size, k),
             out |-> <<>>, status |-> "running"])
       /\ pc' = AfterSpawn(k, NumChunks(Len(input), chunk_size))
  /\ UNCHANGED <<input, f, acc, host, threads_count, chunk_size, joined, collected,
                 output, failure, completed, prev>>

\* lib.rs:44  the thread's closure, one element of chunk.into_iter().map(f):
\* a panic of f ends the thread; the last element completes collect().
WorkerStep(i) ==
  /\ workers[i].status = "running"
  /\ LET w == workers[i]
         x == w.chunk[Len(w.out) + 1] IN
       IF Panics(f, x)
         THEN /\ workers' = [workers EXCEPT ![i].status = "panicked"]
              /\ completed' = Append(completed, i)
         ELSE IF Len(w.out) + 1 = Len(w.chunk)
           THEN /\ workers' = [workers EXCEPT ![i].out = Append(w.out, Apply(f, x)),
                                              ![i].status = "done"]
                /\ completed' = Append(completed, i)
           ELSE /\ workers' = [workers EXCEPT ![i].out = Append(w.out, Apply(f, x))]
                /\ completed' = completed
  /\ UNCHANGED <<input, f, pc, acc, host, threads_count, chunk_size, joined,
                 collected, output, failure, prev>>

\* lib.rs:47-50  one step of the flat_map: join the next handle and unwrap.
\* A panicked thread makes unwrap panic in the caller; the handles not yet
\* joined are dropped, which detaches their threads.
Join ==
  /\ pc = "join"
  /\ joined < Len(workers)
  /\ LET i == JoinOrder(joined + 1, completed) IN
       /\ i \in 1..Len(workers)
       /\ JoinReady(workers[i])
       /\ IF ~Unwraps(workers[i])
            THEN /\ pc' = "panicked"
                 /\ failure' = [kind |-> "worker", worker |-> i]
                 /\ UNCHANGED <<joined, collected>>
            ELSE /\ joined' = joined + 1
                 /\ collected' = Collect(collected, workers[i].out)
                 /\ UNCHANGED <<pc, failure>>
  /\ UNCHANGED <<input, f, acc, host, threads_count, chunk_size, workers, output,
                 completed, prev>>

\* lib.rs:50  every handle has been consumed: collect() returns the output.
Return ==
  /\ pc = "join"
  /\ joined = Len(workers)
  /\ pc' = "returned"
  /\ output' = collected
  /\ UNCHANGED <<input, f, acc, host, threads_count, chunk_size, workers, joined,
                 collected, failure, completed, prev>>

\* The caller runs compute again on the same input with the same f
\* (main.rs:4-6 run once more), keeping the output it got.
Rerun ==
  /\ pc = "returned"
  /\ ~prev.seen
  /\ prev' = [seen |-> TRUE, out |-> output,
               first |-> IF completed = <<>> THEN 0 ELSE Head(completed)]
  /\ pc' = "entered"
  /\ acc' = <<>>
  /\ host' = -1
  /\ threads_count' = 0
  /\ chunk_size' = 0
  /\ workers' = <<>>
  /\ joined' = 0
  /\ collected' = <<>>
  /\ output' = <<>>
  /\ completed' = <<>>
  /\ UNCHANGED <<input, f, failure>>

Next ==
  \/ Enter
  \/ SeqStep
  \/ SeqReturn
  \/ Query
  \/ Spawn
  \/ \E i \in 1..Len(workers) : WorkerStep(i)
  \/ Join
  \/ Return
  \/ Rerun

Spec == Init /\ [][Next]_vars

\* A step of the calling thread inside compute.
CallerStep == Enter \/ SeqStep \/ SeqReturn \/ Query \/ Spawn \/ Join \/ Return

\* A step of the i-th spawned thread, if there is one.
ThreadStep(i) == i \in 1..Len(workers) /\ WorkerStep(i)

\* One call of compute: the calling thread and the threads it spawned.
CallNext ==
  \/ CallerStep
  \/ \E i \in 1..Len(workers) : WorkerStep(i)

\* One call under the operating system's scheduling: the calling thread and
\* every spawned thread are scheduled again and again, so a thread that can
\* take a step eventually does.
FairSpec ==
  /\ Init
  /\ [][CallNext]_vars
  /\ WF_vars(CallerStep)
  /\ \A i \in 1..MaxP : WF_vars(ThreadStep(i))

\* The sizes alone: the calling thread up to the end of the spawns, on longer
\* inputs and on hosts with more threads than elements, the spawned threads
\* not yet scheduled. The element values play no part in the sizes.
SizeInputs == {[i \in 1..k |-> 1] : k \in 0..MaxSize}

SizeInit ==
  /\ input \in SizeInputs
  /\ f = "double"
  /\ pc = "entered"
  /\ acc = <<>>
  /\ host = -1
  /\ threads_count = 0
  /\ chunk_size = 0
  /\ workers = <<>>
  /\ joined = 0
  /\ collected = <<>>
  /\ output = <<>>
  /\ failure = NoFailure
  /\ completed = <<>>
  /\ prev = NoPrev

SizeQuery == QueryFrom(0..MaxThreads)

SizeNext ==
  \/ Enter
  \/ SeqStep
  \/ SeqReturn
  \/ SizeQuery
  \/ Spawn

SizeSpec == SizeInit /\ [][SizeNext]_vars

\* ---------------------------------------------------------------- claims
\* ceil(n / p) by its defining property, for p >= 1.
CeilDiv(n, p) == CHOOSE c \in 0..n : c * p >= n /\ (c = 0 \/ (c - 1) * p < n)

OnParallelPath == Len(input) >= THRESHOLD
Workers == 1..Len(workers)

\* C1: for every input of length >= THRESHOLD, every thread count and every
\* interleaving of the workers, a compute call that returns yields
\* map(f, input): output[i] = f(input[i]) for every i, in input order.
C1_ParallelEqualsMap ==
  (pc = "returned" /\ OnParallelPath) =>
     /\ Len(output) = Len(input)
     /\ \A i \in 1..Len(input) : output[i] = Apply(f, input[i])

\* A parallel call returned on an input whose ends differ, with several
\* workers of which the first was not the first to finish.
C1_Witness ==
  /\ pc = "returned"
  /\ OnParallelPath
  /\ Len(workers) >= 3
  /\ input[1] # input[Len(input)]
  /\ Head(completed) # 1

\* C2: an input shorter than THRESHOLD takes the sequential path: f is
\* applied element by element in the calling thread, no worker is ever
\* spawned, and the result equals map(f, input).
C2_SequentialPath ==
  Len(input) < THRESHOLD =>
     /\ workers = <<>>
     /\ completed = <<>>
     /\ pc \in {"entered", "seq", "returned", "panicked"}
     /\ acc = MapF(f, SubSeq(input, 1, Len(acc)))
     /\ pc = "returned" => output = MapF(f, input) /\ acc = output
     /\ pc = "panicked" => failure.kind = "f"

\* A sequential call returned a non-empty result.
C2_Witness ==
  /\ pc = "returned"
  /\ Len(input) = THRESHOLD - 1
  /\ workers = <<>>
  /\ output = MapF(f, input)
  /\ input[1] # input[2]

\* C3: whenever compute has returned an output on the parallel path, every
\* worker spawned by the call has terminated.
C3_NoWorkerOutlivesReturn ==
  pc = "returned" => \A i \in Workers : workers[i].status # "running"

\* A parallel call returned after spawning the largest number of workers.
C3_Witness ==
  /\ pc = "returned"
  /\ Len(workers) = MaxP
  /\ joined = Len(workers)

\* C4 (as claimed): when the failure of a worker is surfaced to the caller,
\* every worker spawned by the call has been joined: none is left unjoined
\* and none is still running.
C4_AllJoinedBeforeFailure ==
  (pc = "panicked" /\ failure.kind = "worker") =>
     /\ failure.worker = Len(workers)
     /\ \A i \in Workers : workers[i].status # "running"

\* C5: a call either returns the complete output, of the input's length, or
\* fails as a whole: no output is returned when f fails in a worker, and
\* nothing of the output under construction is visible before the return.
C5_AllOrNothing ==
  /\ pc = "returned" =>
        /\ Len(output) = Len(input)
        /\ failure = NoFailure
        /\ \A i \in Workers : workers[i].status # "panicked"
        /\ ~AnyPanics(f, input)
  /\ pc = "panicked" => failure # NoFailure
  /\ pc # "returned" => output = <<>>

\* The call failed on a worker's panic after results of earlier chunks had
\* been collected; the caller sees none of them.
C5_Witness ==
  /\ pc = "panicked"
  /\ failure.kind = "worker"
  /\ collected # <<>>
  /\ output = <<>>

\* C6: the output for a given input and f is the same in every execution:
\* a second run returns what the first returned, whatever the order in
\* which the workers of either run finished.
C6_SameOutputEveryRun ==
  (pc = "returned" /\ prev.seen) => output = prev.out

\* Two parallel runs returned whose workers finished in different orders.
C6_Witness ==
  /\ pc = "returned"
  /\ prev.seen
  /\ Len(workers) >= 3
  /\ prev.first # Head(completed)
  /\ input[1] # input[Len(input)]

\* C7: on the parallel path the number of workers spawned never exceeds the
\* thread count p, and no chunk holds more than ceil(n / p) elements.
C7_WorkersAndChunksBounded ==
  threads_count > 0 =>
     /\ Len(workers) <= threads_count
     /\ \A i \in Workers :
          Len(workers[i].chunk) <= CeilDiv(Len(input), threads_count)

\* Every chunk has been handed out, a full-sized chunk among them, and
\* fewer workers than threads were needed.
C7_Witness ==
  /\ pc = "join"
  /\ threads_count = MaxP
  /\ Len(workers) < threads_count
  /\ Len(workers[1].chunk) = CeilDiv(Len(input), threads_count)

\* C8 (as claimed): the chunks of one call differ in size by at most one
\* element between the largest and the smallest.
C8_ChunkSizesWithinOne ==
  \A i, j \in Workers : Len(workers[i].chunk) - Len(workers[j].chunk) <= 1

\* C9: when the host cannot report its parallelism the call fails before
\* any worker is spawned and before f is applied to any element, and no
\* thread count is substituted.
C9_HostFailureIsFatal ==
  host = 0 =>
     /\ pc = "panicked"
     /\ failure.kind = "host"
     /\ threads_count = 0
     /\ workers = <<>>
     /\ completed = <<>>
     /\ acc = <<>>
     /\ collected = <<>>
     /\ output = <<>>

\* The query failed on an input long enough for the parallel path.
C9_Witness ==
  /\ host = 0
  /\ OnParallelPath
  /\ failure.kind = "host"

\* C10: whenever compute returns, on either path and for every thread
\* count, the output is as long as the input.
C10_LengthPreserved ==
  pc = "returned" => Len(output) = Len(input)

\* A parallel call returned whose last chunk was shorter than the others.
C10_Witness ==
  /\ pc = "returned"
  /\ Len(workers) >= 2
  /\ Len(workers[Len(workers)].chunk) < chunk_size
  /\ Len(output) = MaxLen

\* C11: under fair scheduling of the threads, a call on an input on which f
\* never fails, on a host that reports its parallelism, eventually returns,
\* on either path: no join waits forever.
C11_CallReturns ==
  (pc = "entered" /\ ~AnyPanics(f, input)) ~> (pc = "returned" \/ host = 0)

\* A parallel call on which f never failed returned after a join had to
\* wait for a worker that was not the first to finish.
C11_Witness ==
  /\ pc = "returned"
  /\ ~AnyPanics(f, input)
  /\ Len(workers) = 2
  /\ completed = <<2, 1>>
  /\ f = "double"

\* The chunks handed to workers 1..k, one after the other.
RECURSIVE ChunksUpTo(_)
ChunksUpTo(k) == IF k = 0 THEN <<>> ELSE ChunksUpTo(k - 1) \o workers[k].chunk

\* C12: the chunks partition the input: each is a non-empty contiguous slice
\* starting where the one before ended, every chunk but possibly the last
\* has chunk_size elements, and the chunks in index order make up the input.
C12_ChunksPartitionInput ==
  /\ \A i \in Workers :
        LET c == workers[i].chunk
            start == Len(ChunksUpTo(i - 1)) IN
          /\ c # <<>>
          /\ Len(c) <= chunk_size
          /\ i < Len(workers) => Len(c) = chunk_size
          /\ start + Len(c) <= Len(input)
          /\ c = SubSeq(input, start + 1, start + Len(c))
  /\ (workers # <<>> /\ pc # "spawn") => ChunksUpTo(Len(workers)) = input

\* Three chunks of sizes 3, 3 and 1 have been handed out, on an input that
\* changes value across a chunk boundary.
C12_Witness ==
  /\ pc = "join"
  /\ Len(workers) = 3
  /\ chunk_size = 3
  /\ Len(workers[3].chunk) = 1
  /\ input[3] # input[4]

\* Number of results produced by workers 1..k.
RECURSIVE ResultsUpTo(_)
ResultsUpTo(k) == IF k = 0 THEN 0 ELSE ResultsUpTo(k - 1) + Len(workers[k].out)

C14_ThresholdAndUpParallel ==
  OnParallelPath =>
     /\ pc # "seq"
     /\ acc = <<>>
     /\ pc \notin {"entered", "query"} => host >= 0
     /\ pc \in {"join", "returned"} => host >= 1 /\ workers # <<>>
     /\ (threads_count = 1 /\ pc \in {"join", "returned"}) =>
           Len(workers) = 1 /\ workers[1].chunk = input
     /\ (threads_count = 1 /\ pc = "returned") => output = MapF(f, input)

\* An input of exactly THRESHOLD elements was mapped by the single worker
\* of a one-thread host (factorial, as in the test at lib.rs:92-105).
C14_Witness ==
  /\ pc = "returned"
  /\ Len(input) = THRESHOLD
  /\ threads_count = 1
  /\ f = "factorial"
  /\ Len(workers) = 1
  /\ input[1] # input[2]

\* C15: the number of workers spawned is ceil(n / ceil(n / p)); it is p
\* whenever n is a multiple of p, and it is smaller than p only when
\* n < p * chunk_size.
C15_WorkerCount ==
  (pc = "join" /\ threads_count > 0) =>
     LET n == Len(input)
         p == threads_count IN
       /\ Len(workers) = CeilDiv(n, CeilDiv(n, p))
       /\ n % p = 0 => Len(workers) = p
       /\ Len(workers) < p => n < p * chunk_size

\* Twelve elements on four threads were handed to four workers.
C15_Witness ==
  /\ pc = "join"
  /\ Len(input) = 12
  /\ threads_count = 4
  /\ Len(workers) = 4

\* C19: on the parallel path the chunk size computed is at least 1, so the
\* partitioning is never called with a chunk size of 0 and never aborts
\* the call.
C19_ChunkSizePositive ==
  /\ threads_count > 0 => chunk_size >= 1
  /\ failure.kind # "chunks"

\* A host with more threads than the input has elements: the chunk size is
\* 1 and every element got a worker of its own.
C19_Witness ==
  /\ pc = "join"
  /\ threads_count > Len(input)
  /\ chunk_size = 1
  /\ Len(workers) = Len(input)

\* C16: when f fails in more than one worker, the failure surfaced to the
\* caller is that of the failed worker with the lowest chunk index,
\* whatever the order in time of the failures: the surfaced worker's chunk
\* holds an element on which f fails and no chunk before it does.
C16_LowestIndexFailureSurfaces ==
  failure.kind = "worker" =>
     /\ failure.worker \in Workers
     /\ workers[failure.worker].status = "panicked"
     /\ AnyPanics(f, workers[failure.worker].chunk)
     /\ \A j \in 1..(failure.worker - 1) :
          /\ workers[j].status = "done"
          /\ ~AnyPanics(f, workers[j].chunk)

\* Two workers failed, the one with the higher index first in time, and
\* the failure surfaced is that of the lower index.
C16_Witness ==
  /\ failure.kind = "worker"
  /\ Len(completed) >= 2
  /\ workers[completed[1]].status = "panicked"
  /\ workers[failure.worker].status = "panicked"
  /\ completed[1] > failure.worker

\* Number of workers among 1..k that ended in a panic of f.
RECURSIVE PanickedUpTo(_)
PanickedUpTo(k) ==
  IF k = 0 THEN 0
  ELSE PanickedUpTo(k - 1) + (IF workers[k].status = "panicked" THEN 1 ELSE 0)

\* Number of times f has been called in this run: once per result produced,
\* in the calling thread or in a worker, and once per panic.
Applications ==
  Len(acc) + (IF failure.kind = "f" THEN 1 ELSE 0)
  + ResultsUpTo(Len(workers)) + PanickedUpTo(Len(workers))

\* C17: in a call that returns f has been applied exactly once to each input
\* element, n times in all; each worker applies f to the elements of its own
\* chunk in chunk order, and the chunks share no element.
C17_EachElementOnce ==
  /\ acc = MapF(f, SubSeq(input, 1, Len(acc)))
  /\ \A i \in Workers :
        LET w == workers[i] IN
          /\ Len(w.out) <= Len(w.chunk)
          /\ w.out = MapF(f, SubSeq(w.chunk, 1, Len(w.out)))
          /\ w.status = "done" => Len(w.out) = Len(w.chunk)
  /\ Applications <= Len(input)
  /\ pc = "returned" =>
        /\ Applications = Len(input)
        /\ Len(ChunksUpTo(Len(workers))) = Len(input) - Len(acc)

\* A call returned after three workers had each mapped a chunk of two
\* elements.
C17_Witness ==
  /\ pc = "returned"
  /\ Len(input) = 6
  /\ Len(workers) = 3
  /\ Applications = 6
  /\ \A i \in Workers : Len(workers[i].out) = 2

\* C18: for an input shorter than THRESHOLD the host's parallelism is never
\* queried, so the call cannot fail on the query and returns map(f, input)
\* whatever the host would have answered.
C18_NoQueryBelowThreshold ==
  Len(input) < THRESHOLD =>
     /\ host = -1
     /\ threads_count = 0
     /\ chunk_size = 0
     /\ pc # "query"
     /\ failure.kind # "host"
     /\ (~AnyPanics(f, input) /\ pc \notin {"entered", "seq"}) =>
           pc = "returned" /\ output = MapF(f, input)

\* A one-element input was mapped and returned with the host never asked.
C18_Witness ==
  /\ pc = "returned"
  /\ Len(input) = 1
  /\ host = -1
  /\ output = <<Apply(f, input[1])>>

====
